---- MODULE Spec2Model ----
(***************************************************************************)
(* Baseline Guard: a GitHub Action that classifies web-platform features   *)
(* against a Baseline target and scans CSS / JS files for usages of        *)
(* features outside the compliant set.                                     *)
(*                                                                         *)
(* The repository holds several copies of the entry point that differ in   *)
(* their logic.  Each copy is modelled as a "variant" of the program:      *)
(*   "V1" src/index.js lines   1-196  (callback CSS scan, no validation)   *)
(*   "V2" src/index.js lines 197-430  (postcss messages, data-derived JS)  *)
(*   "P1" src/unnamed/part_001 lines   1-220 (callback CSS, fixed JS list) *)
(*   "P2" src/unnamed/part_001 lines 222-458 (postcss, fixed JS list)      *)
(* src/index.js lines 431-628 repeat V1 with P1's validation and           *)
(* lines 629-659 are a stub that only reads the inputs; neither adds a     *)
(* behaviour of its own and they are not given a variant.                  *)
(*                                                                         *)
(* Strings the code parses (the target) are sequences of one-character     *)
(* strings; date strings "YYYY-MM-DD" are triples <<y, m, d>>; an absent   *)
(* or empty (falsy) string is the empty sequence.                          *)
(***************************************************************************)
EXTENDS Integers, Sequences, FiniteSets, TLC

\* ----------------------------------------------------------------- bounds
MaxFiles == 2
MinYear == 2021
MaxYear == 2023

\* ------------------------------------------------------- JavaScript basics
\* A number that may be NaN.
NaN == [nan |-> TRUE, val |-> 0]
Num(n) == [nan |-> FALSE, val |-> n]
isNaN(x) == x.nan

\* a <= b on numbers: every comparison with NaN is false.
LessEq(a, b) == ~a.nan /\ ~b.nan /\ a.val <= b.val

UpperCase == <<"A","B","C","D","E","F","G","H","I","J","K","L","M",
               "N","O","P","Q","R","S","T","U","V","W","X","Y","Z">>
LowerCase == <<"a","b","c","d","e","f","g","h","i","j","k","l","m",
               "n","o","p","q","r","s","t","u","v","w","x","y","z">>

toLowerChar(c) ==
    IF \E i \in 1..26 : UpperCase[i] = c
    THEN LowerCase[CHOOSE i \in 1..26 : UpperCase[i] = c]
    ELSE c

\* String.prototype.toLowerCase
toLowerCase(str) == [i \in 1..Len(str) |-> toLowerChar(str[i])]

DigitChars == <<"0","1","2","3","4","5","6","7","8","9">>
IsDigit(c) == \E i \in 1..10 : DigitChars[i] = c
DigitVal(c) == (CHOOSE i \in 1..10 : DigitChars[i] = c) - 1

RECURSIVE SkipSpaces(_)
SkipSpaces(str) ==
    IF str # <<>> /\ Head(str) = " " THEN SkipSpaces(Tail(str)) ELSE str

RECURSIVE DigitsValue(_, _, _)
\* Value of the longest run of decimal digits at the head of str.
DigitsValue(str, acc, seen) ==
    IF str # <<>> /\ IsDigit(Head(str))
    THEN DigitsValue(Tail(str), acc * 10 + DigitVal(Head(str)), TRUE)
    ELSE IF seen THEN Num(acc) ELSE NaN

\* parseInt(str, 10), and parseInt(str) for strings without an "0x" prefix:
\* leading white space is skipped, an optional sign is read, then the longest
\* prefix of digits; what follows the digits is ignored; no digit gives NaN.
parseInt(str) ==
    LET s == SkipSpaces(str)
        neg == s # <<>> /\ Head(s) = "-"
        body == IF s # <<>> /\ Head(s) \in {"-", "+"} THEN Tail(s) ELSE s
        r == DigitsValue(body, 0, FALSE)
    IN IF r.nan THEN NaN ELSE IF neg THEN Num(0 - r.val) ELSE r

\* A year as the four characters a user types.
YearStr(y) ==
    << DigitChars[((y \div 1000) % 10) + 1], DigitChars[((y \div 100) % 10) + 1],
       DigitChars[((y \div 10) % 10) + 1], DigitChars[(y % 10) + 1] >>

\* ------------------------------------------------------------------ dates
\* toDate(dateString) = new Date(dateString).  A date-only ISO string is
\* parsed as midnight UTC of that day.
toDate(dateString) == [y |-> dateString[1], m |-> dateString[2], d |-> dateString[3], utcHour |-> 0]

\* Date.prototype.getFullYear: the year of the instant in the host's local
\* time.  At a negative offset midnight UTC is still the previous day, so
\* 1 January reads as the year before.
getFullYear(date, tzOffsetHours) ==
    IF date.utcHour + tzOffsetHours < 0 /\ date.m = 1 /\ date.d = 1
    THEN Num(date.y - 1)
    ELSE Num(date.y)

\* ------------------------------------------------------------------ state
VARIABLES
    variant,                \* which copy of the entry point is running
    tzOffset,               \* host time zone, hours east of UTC
    snapshot,               \* the feature snapshot on disk (data.json)
    features,               \* module-level `features` once loaded
    pc,                     \* position of the process
    targetBaseline,         \* input target-baseline
    failOnNewly,            \* input fail-on-newly === 'true'
    compliantFeatureIds,    \* result of getCompliantFeatureIds
    nonCompliantFeatureIds, \* inverse set built in run() (V2, P2)
    filePaths,              \* result of glob, in glob order
    fileIndex,              \* number of files the scan loop has finished
    allViolations,          \* the violation list
    pending,                \* usages the extractor has not yet handed to onFeatureUsage (V1, P1)
    filesRead,              \* paths handed to fs.readFileSync, in order
    log,                    \* core.warning / core.error calls, in order
    failed,                 \* message kind of core.setFailed, "" if not called
    violationsFound,        \* output violations-found, "" if not set
    report                  \* the list handed to generateReport and written, or <<>>

vars == << variant, tzOffset, snapshot, features, pc, targetBaseline, failOnNewly,
           compliantFeatureIds, nonCompliantFeatureIds, filePaths, fileIndex,
           allViolations, pending, filesRead, log, failed, violationsFound, report >>

environment == << variant, tzOffset, snapshot >>
inputs == << targetBaseline, failOnNewly >>
classified == << compliantFeatureIds, nonCompliantFeatureIds >>
scan == << filePaths, fileIndex, allViolations, pending, filesRead >>
outcome == << failed, violationsFound, report >>

Variants == {"V1", "V2", "P1", "P2"}

widely == <<"w","i","d","e","l","y">>
newly == <<"n","e","w","l","y">>

\* The truthiness test of the code on a date string: absent or empty is falsy.
Truthy(dateString) == dateString # <<>>

\* Object.keys / Object.values of the loaded feature data.
ObjectKeys(obj) == DOMAIN obj
ObjectValues(obj) == {obj[k] : k \in DOMAIN obj}

\* The test both validating copies make before the loop.
InvalidTarget(lowerTarget) ==
    lowerTarget \notin {widely, newly} /\ isNaN(parseInt(lowerTarget))

\* A date test that accepts the dates from the target year on.
DateWithin_Reversed(dateString, targetYear) ==
    Truthy(dateString) /\ LessEq(targetYear, getFullYear(toDate(dateString), tzOffset))

\* dateString && toDate(dateString).getFullYear() <= targetYear
DateWithin(dateString, targetYear) ==
    Truthy(dateString) /\ LessEq(getFullYear(toDate(dateString), tzOffset), targetYear)

Returned(ids, warned) == [threw |-> "", ids |-> ids, warned |-> warned]
Thrown(error) == [threw |-> error, ids |-> {}, warned |-> FALSE]

\* ---- V1: src/index.js 85-124
isCompliant_V1(feature, lowerTarget, failOnNewlyArg) ==
    LET status == feature.status.baseline
        highDate == feature.baseline_high_date
        lowDate == feature.baseline_low_date
        byTier == \/ (lowerTarget = widely /\ status = "high")
                  \/ (lowerTarget = newly /\ status \in {"high", "low"})
        afterOverride == IF failOnNewlyArg /\ status = "low" THEN FALSE ELSE byTier
        targetYear == parseInt(lowerTarget)
    IN  IF ~isNaN(targetYear)
           /\ (DateWithin(lowDate, targetYear) \/ DateWithin(highDate, targetYear))
        THEN TRUE
        ELSE afterOverride

getCompliantFeatureIds_V1(target, failOnNewlyArg) ==
    LET lowerTarget == toLowerCase(target)
        ids == {feature.id : feature \in
                  {f \in ObjectValues(features) :
                      isCompliant_V1(f, lowerTarget, failOnNewlyArg) /\ f.id # ""}}
    IN  Returned(ids, FALSE)

\* ---- P1: src/unnamed/part_001 79-129
isCompliant_P1(feature, lowerTarget, failOnNewlyArg) ==
    LET status == feature.status.baseline
        highDate == feature.baseline_high_date
        lowDate == feature.baseline_low_date
        byTier == \/ (lowerTarget = widely /\ status = "high")
                  \/ (lowerTarget = newly /\ status \in {"high", "low"})
        afterOverride == IF failOnNewlyArg /\ status = "low" THEN FALSE ELSE byTier
        targetYear == parseInt(lowerTarget)
    IN  IF ~isNaN(targetYear)
           /\ (DateWithin(lowDate, targetYear) \/ DateWithin(highDate, targetYear))
        THEN TRUE
        ELSE afterOverride

getCompliantFeatureIds_P1(target, failOnNewlyArg) ==
    LET lowerTarget == toLowerCase(target)
        ids == {feature.id : feature \in
                  {f \in ObjectValues(features) :
                      isCompliant_P1(f, lowerTarget, failOnNewlyArg) /\ f.id # ""}}
    IN  IF InvalidTarget(lowerTarget)
        THEN Thrown("Invalid target-baseline")
        ELSE Returned(ids, ids = {})

\* An override that makes a 'low' feature compliant instead of removing it.
isCompliant_Upgrading(featureData, lowerTarget, failOnNewlyArg) ==
    LET status == featureData.status.baseline
        byTarget == IF lowerTarget = widely THEN status = "high"
                    ELSE IF lowerTarget = newly THEN status \in {"high", "low"}
                    ELSE FALSE
    IN  IF failOnNewlyArg /\ status = "low" THEN TRUE ELSE byTarget

\* ---- V2: src/index.js 283-332
isCompliant_V2(featureData, lowerTarget, failOnNewlyArg) ==
    LET status == featureData.status.baseline
        lowDate == featureData.status.baseline_low_date
        targetYear == parseInt(lowerTarget)
        byTarget == IF lowerTarget = widely THEN status = "high"
                    ELSE IF lowerTarget = newly THEN status \in {"high", "low"}
                    ELSE ~isNaN(targetYear) /\ DateWithin(lowDate, targetYear)
    IN  IF failOnNewlyArg /\ status = "low" THEN FALSE ELSE byTarget

\* A classification that compares the target as typed.
getCompliantFeatureIds_AsTyped(target, failOnNewlyArg) ==
    LET ids == {featureId \in ObjectKeys(features) :
                   isCompliant_V2(features[featureId], target, failOnNewlyArg)}
    IN  IF InvalidTarget(target)
        THEN Thrown("Invalid target-baseline")
        ELSE Returned(ids, ids = {})

getCompliantFeatureIds_V2(target, failOnNewlyArg) ==
    LET lowerTarget == toLowerCase(target)
        ids == {featureId \in ObjectKeys(features) :
                   isCompliant_V2(features[featureId], lowerTarget, failOnNewlyArg)}
    IN  IF InvalidTarget(lowerTarget)
        THEN Thrown("Invalid target-baseline")
        ELSE Returned(ids, ids = {})

\* ---- P2: src/unnamed/part_001 308-363
isCompliant_P2(featureData, lowerTarget, failOnNewlyArg) ==
    LET status == featureData.status.baseline
        lowDate == featureData.status.baseline_low_date
        highDate == featureData.status.baseline_high_date
        targetYear == parseInt(lowerTarget)
        byTarget == IF lowerTarget = widely THEN status = "high"
                    ELSE IF lowerTarget = newly THEN status \in {"high", "low"}
                    ELSE ~isNaN(targetYear)
                         /\ (DateWithin(lowDate, targetYear) \/ DateWithin(highDate, targetYear))
    IN  IF failOnNewlyArg /\ status = "low" THEN FALSE ELSE byTarget

\* The else branch of the final report reads the undeclared name `comiantIds`
\* (part_001 line 359): a ReferenceError whenever the set is not empty.
getCompliantFeatureIds_P2(target, failOnNewlyArg) ==
    LET lowerTarget == toLowerCase(target)
        ids == {featureId \in ObjectKeys(features) :
                   isCompliant_P2(features[featureId], lowerTarget, failOnNewlyArg)}
    IN  IF InvalidTarget(lowerTarget)
        THEN Thrown("Invalid target-baseline")
        ELSE IF ids = {}
        THEN Returned(ids, TRUE)
        ELSE Thrown("ReferenceError")

getCompliantFeatureIds(target, failOnNewlyArg) ==
    CASE variant = "V1" -> getCompliantFeatureIds_V1(target, failOnNewlyArg)
      [] variant = "V2" -> getCompliantFeatureIds_V2(target, failOnNewlyArg)
      [] variant = "P1" -> getCompliantFeatureIds_P1(target, failOnNewlyArg)
      [] variant = "P2" -> getCompliantFeatureIds_P2(target, failOnNewlyArg)

\* ------------------------------------------------------------ environment
\* Feature records as data.json may hold them.  web-features publishes the
\* dates inside `status`; V1 and P1 read them from the record's top level.
FeatureRecord(id, baseline, nestedLow, nestedHigh, topLow, topHigh) ==
    [ id |-> id,
      status |-> [ baseline |-> baseline,
                   baseline_low_date |-> nestedLow,
                   baseline_high_date |-> nestedHigh ],
      baseline_low_date |-> topLow,
      baseline_high_date |-> topHigh ]

Keys == {"fetch", "grid"}
Baselines == {"high", "low", ""}
SpringDate == << MinYear + 1, 3, 1 >>
NewYearDate == << MaxYear, 1, 1 >>

\* A record's `id` field, when it has one, is the store key or another name.
AliasOf(key) == IF key = "fetch" THEN "fetch-api" ELSE "css-grid"

RecordsOf(key, ids, lows, highs, nested) ==
    { IF nested
      THEN FeatureRecord(id, b, lo, hi, <<>>, <<>>)
      ELSE FeatureRecord(id, b, <<>>, <<>>, lo, hi) :
        id \in ids, b \in Baselines, lo \in lows, hi \in highs }

StoresOf(lows, highs) ==
    UNION { { [k \in Keys |-> IF k = "fetch" THEN rf ELSE rg] :
                rf \in RecordsOf("fetch", {"", "fetch", AliasOf("fetch")}, lows, highs, nested),
                rg \in RecordsOf("grid", {"", "grid", AliasOf("grid")}, lows, highs, nested) } :
            nested \in BOOLEAN }

ClassifyStores == StoresOf({<<>>, SpringDate, NewYearDate}, {<<>>, SpringDate})

TzOffsets == {-5, 0}

Targets ==
    { widely, newly, <<"W","i","d","e","l","y">>, <<"f","o","o">>, <<>>,
      YearStr(MinYear + 1) \o <<"p","x">> }
    \cup { YearStr(y) : y \in MinYear..MaxYear }

\* ---------------------------------------------------------------- actions
\* core.getInput(name, { required: true }) throws on an empty input.
InputRequired == variant \in {"V2", "P1", "P2"}

\* run(): the inputs are read (V2: src/index.js 336-346).
ReadInputs ==
    /\ pc = "inputs"
    /\ \E t \in Targets, f \in BOOLEAN :
          /\ targetBaseline' = t
          /\ failOnNewly' = f
          /\ IF t = <<>> /\ InputRequired
             THEN /\ failed' = "Action failed with error"
                  /\ pc' = "ended"
             ELSE /\ failed' = failed
                  /\ pc' = "classify"
    /\ UNCHANGED << environment, features, classified, scan, log, violationsFound, report >>

\* run(): the inverse set (V2: src/index.js 352-353; P2: part_001 383-384).
\* V1 and P1 build no such set.
NonCompliantOf(compliant) ==
    IF variant \in {"V2", "P2"}
    THEN {id \in ObjectKeys(features) : id \notin compliant}
    ELSE {}

\* run(): classification up to the await of glob (V2: src/index.js 348-358).
Classify ==
    /\ pc = "classify"
    /\ LET r == getCompliantFeatureIds(targetBaseline, failOnNewly)
       IN  IF r.threw # ""
           THEN /\ failed' = "Action failed with error"
                /\ pc' = "ended"
                /\ UNCHANGED << classified, log >>
           ELSE /\ compliantFeatureIds' = r.ids
                /\ nonCompliantFeatureIds' = NonCompliantOf(r.ids)
                /\ log' = IF r.warned THEN Append(log, "warning: no compliant features") ELSE log
                /\ pc' = "glob"
                /\ failed' = failed
    /\ UNCHANGED << environment, features, inputs, scan, violationsFound, report >>

\* ----------------------------------------------------------- file system
\* What the CSS extractor (doiuse under postcss) reports for one usage; an
\* absent line or column is 0, which is falsy like undefined.
Usage(feature, line, column) ==
    [plugin |-> "doiuse", feature |-> feature, line |-> line, column |-> column]

File(ext, readable, parses, usages, text) ==
    [ext |-> ext, readable |-> readable, parses |-> parses, usages |-> usages, text |-> text]

\* The files a glob pattern can select: style sheets (one the extractor
\* rejects, one that cannot be read), a script, an image and a directory.
\* `text` lists the API tokens a script's raw text contains, in order.
FileSystem ==
    [ path \in {"a.css", "b.css", "bad.css", "locked.css", "app.js", "logo.png", "assets"} |->
        CASE path = "a.css" ->
               File(".css", TRUE, TRUE, << Usage("fetch", 3, 5), Usage("fetch", 9, 0) >>, <<>>)
          [] path = "b.css" ->
               File(".css", TRUE, TRUE, << Usage("grid", 0, 0), Usage("unlisted", 1, 1) >>, <<>>)
          [] path = "bad.css" -> File(".css", TRUE, FALSE, <<>>, <<>>)
          [] path = "locked.css" -> File(".css", FALSE, FALSE, <<>>, <<>>)
          [] path = "app.js" ->
               File(".js", TRUE, TRUE, <<>>, << "fetch", "Promise.any", "fetch" >>)
          [] path = "logo.png" -> File(".png", TRUE, TRUE, <<>>, <<>>)
          [] path = "assets" -> File("", FALSE, FALSE, <<>>, <<>>) ]

Paths == DOMAIN FileSystem

\* filePath.endsWith(suffix)
endsWith(filePath, suffix) == FileSystem[filePath].ext = suffix

\* fileContent.includes(api)
includes(filePath, api) ==
    \E i \in 1..Len(FileSystem[filePath].text) : FileSystem[filePath].text[i] = api

\* The results glob can give: up to MaxFiles distinct paths in any order.
GlobResults ==
    UNION { { fp \in [1..n -> Paths] : \A i, j \in 1..n : i # j => fp[i] # fp[j] } :
            n \in 0..MaxFiles }

\* ------------------------------------------------------------- snapshots
\* A record as web-features publishes it for a baseline status.
Published(baseline, id) ==
    CASE baseline = "high" -> FeatureRecord(id, "high", SpringDate, NewYearDate, <<>>, <<>>)
      [] baseline = "low" -> FeatureRecord(id, "low", NewYearDate, <<>>, <<>>, <<>>)
      [] OTHER -> FeatureRecord(id, "", <<>>, <<>>, <<>>, <<>>)

IdOf(key, mode) ==
    CASE mode = "none" -> ""
      [] mode = "key" -> key
      [] mode = "alias" -> AliasOf(key)

RunStores ==
    { [k \in Keys |-> Published(b[k], IdOf(k, mode))] :
        b \in [Keys -> Baselines], mode \in {"none", "key", "alias"} }

EmptyObject == [k \in {} |-> ""]

\* What data.json can be: absent, not JSON, or JSON of some type.  `entries`
\* is what Object.keys / Object.entries see: index keys for an array,
\* nothing for a number.
Snapshots ==
    { [kind |-> k, entries |-> EmptyObject] : k \in {"missing", "unparsable", "null", "number"} }
    \cup { [kind |-> "array", entries |-> [k \in {"0"} |-> Published("high", "")]] }
    \cup { [kind |-> "object", entries |-> st] : st \in RunStores \cup {EmptyObject} }

\* What require('web-features') gives V1 when there is no local data.json.
PackagedFeatures == [k \in Keys |-> Published(IF k = "fetch" THEN "high" ELSE "low", "")]
Packages ==
    { [kind |-> "missing", entries |-> EmptyObject],
      [kind |-> "object", entries |-> EmptyObject],
      [kind |-> "object", entries |-> PackagedFeatures] }

\* ------------------------------------------------------------------ load
\* The module-level try block: JSON.parse(fs.readFileSync(dataPath)) and the
\* Object.keys(features) of the log line that follows, which throws on null.
\* (V2: src/index.js 209-222; P1: part_001 12-21; P2: part_001 234-248)
LoadThrows(data) == data.kind \in {"missing", "unparsable", "null"}

\* V1 (src/index.js 8-23) reads the local file only if it exists and
\* otherwise takes the package's features, or {} if it exports none.
LoadSource(package) ==
    IF variant = "V1" /\ snapshot.kind = "missing" THEN package ELSE snapshot

Load ==
    /\ pc = "load"
    /\ \E package \in Packages :
          LET data == LoadSource(package)
          IN  IF LoadThrows(data)
              THEN /\ failed' = "Failed to load web-features"
                   /\ pc' = "exited"
                   /\ features' = features
              ELSE /\ features' = data.entries
                   /\ pc' = "inputs"
                   /\ failed' = failed
    /\ UNCHANGED << environment, inputs, classified, scan, log, violationsFound, report >>

\* ------------------------------------------------------------------ scan
\* value || 'unknown'
OrUnknown(value) ==
    IF value = 0 THEN [known |-> FALSE, n |-> 0] ELSE [known |-> TRUE, n |-> value]
unknown == [known |-> FALSE, n |-> 0]

\* const filePaths = await glob(scanFiles, { ignore: 'node_modules/**' })
Glob ==
    /\ pc = "glob"
    /\ filePaths' \in GlobResults
    /\ pc' = "scan"
    /\ UNCHANGED << environment, features, inputs, classified, fileIndex, allViolations,
                    pending, filesRead, log, outcome >>

\* The run's catch block: core.setFailed(`Action failed with error: ...`).
Abort ==
    /\ failed' = "Action failed with error"
    /\ pc' = "ended"

NextFile ==
    /\ fileIndex' = fileIndex + 1
    /\ pc' = pc
    /\ failed' = failed

\* ---- V1: src/index.js 149-169.  onFeatureUsage pushes every usage whose
\* feature is not in the compliant set.
Violation_V1(filePath, usage) ==
    [ file |-> filePath, line |-> OrUnknown(usage.line), feature |-> usage.feature,
      reason |-> "Not found in Baseline Target" ]

onFeatureUsage_V1(violations, filePath, usage) ==
    IF usage.feature \notin compliantFeatureIds
    THEN Append(violations, Violation_V1(filePath, usage))
    ELSE violations

RECURSIVE Deliver_V1(_, _, _)
\* The extractor calls onFeatureUsage for each usage, in emission order.
Deliver_V1(violations, filePath, usages) ==
    IF usages = <<>> THEN violations
    ELSE Deliver_V1(onFeatureUsage_V1(violations, filePath, Head(usages)), filePath, Tail(usages))

Queued(filePath, usages) == [i \in 1..Len(usages) |-> [file |-> filePath, usage |-> usages[i]]]

\* The call is not awaited.  Whether the extractor runs inside the call or
\* later is the library's choice: either it reports (or throws) at once, or
\* the usages stay queued until the run's synchronous code has finished.
ScanCss_V1(filePath) ==
    LET file == FileSystem[filePath]
    IN  /\ filesRead' = Append(filesRead, filePath)
        /\ IF ~file.readable
           THEN Abort /\ UNCHANGED << fileIndex, allViolations, pending >>
           ELSE \E atOnce \in BOOLEAN :
                  IF atOnce
                  THEN IF ~file.parses
                       THEN Abort /\ UNCHANGED << fileIndex, allViolations, pending >>
                       ELSE /\ allViolations' = Deliver_V1(allViolations, filePath, file.usages)
                            /\ NextFile
                            /\ pending' = pending
                  ELSE /\ pending' = pending \o Queued(filePath, file.usages)
                       /\ NextFile
                       /\ allViolations' = allViolations

ScanFile_V1(filePath) ==
    /\ IF endsWith(filePath, ".css")
       THEN ScanCss_V1(filePath)
       ELSE NextFile /\ UNCHANGED << allViolations, pending, filesRead >>
    /\ log' = log

\* ---- P1: src/unnamed/part_001 154-185.  CSS as V1; scripts against a fixed list.
nonCompliantAPIs_P1 == << "fetch", "Promise.any" >>

Violation_P1(filePath, api) ==
    [ file |-> filePath, line |-> unknown, feature |-> api,
      reason |-> "Non-compliant JS API" ]

RECURSIVE Found(_, _)
\* The entries of list the file's text includes, in list order.
Found(filePath, list) ==
    IF list = <<>> THEN <<>>
    ELSE IF includes(filePath, Head(list))
    THEN <<Head(list)>> \o Found(filePath, Tail(list))
    ELSE Found(filePath, Tail(list))

\* list.forEach(api => { if (content.includes(api)) allViolations.push(...) })
JsViolations_P1(filePath, list) ==
    LET found == Found(filePath, list)
    IN  [i \in 1..Len(found) |-> Violation_P1(filePath, found[i])]

ScanJs_P1(filePath) ==
    /\ filesRead' = Append(filesRead, filePath)
    /\ pending' = pending
    /\ IF ~FileSystem[filePath].readable
       THEN Abort /\ UNCHANGED << fileIndex, allViolations >>
       ELSE /\ allViolations' = allViolations \o JsViolations_P1(filePath, nonCompliantAPIs_P1)
            /\ NextFile

ScanFile_P1(filePath) ==
    /\ IF endsWith(filePath, ".css")
       THEN ScanCss_V1(filePath)
       ELSE IF endsWith(filePath, ".js")
       THEN ScanJs_P1(filePath)
       ELSE NextFile /\ UNCHANGED << allViolations, pending, filesRead >>
    /\ log' = log

\* ---- V2: src/index.js 369-405.  Every file is read before its kind is
\* looked at; CSS messages are filtered against the non-compliant set inside
\* a try block; scripts are searched for every non-compliant id.
Violation_V2(filePath, message) ==
    [ file |-> filePath, line |-> OrUnknown(message.line), column |-> OrUnknown(message.column),
      feature |-> message.feature, reason |-> "CSS feature is not compliant" ]

JsViolation_V2(filePath, api) ==
    [ file |-> filePath, line |-> unknown, column |-> unknown, feature |-> api,
      reason |-> "Potential usage of JS feature" ]

\* list.forEach(api => { if (fileContent.includes(api)) allViolations.push(...) })
JsViolations_V2(filePath, list) ==
    LET found == Found(filePath, list)
    IN  [i \in 1..Len(found) |-> JsViolation_V2(filePath, found[i])]

RECURSIVE CssMessages_V2(_, _, _)
CssMessages_V2(violations, filePath, messages) ==
    IF messages = <<>> THEN violations
    ELSE CssMessages_V2(
            IF Head(messages).plugin = "doiuse"
               /\ Head(messages).feature \in nonCompliantFeatureIds
            THEN Append(violations, Violation_V2(filePath, Head(messages)))
            ELSE violations,
            filePath, Tail(messages))

\* Object.keys order of the snapshot, which is the iteration order of the
\* non-compliant Set.
KeyOrder == << "0", "fetch", "grid" >>
RECURSIVE Filter(_, _)
Filter(seq, set) ==
    IF seq = <<>> THEN <<>>
    ELSE IF Head(seq) \in set THEN <<Head(seq)>> \o Filter(Tail(seq), set)
    ELSE Filter(Tail(seq), set)

ScanFile_V2(filePath) ==
    LET file == FileSystem[filePath]
    IN  /\ filesRead' = Append(filesRead, filePath)
        /\ pending' = pending
        /\ IF ~file.readable
           THEN Abort /\ UNCHANGED << fileIndex, allViolations, log >>
           ELSE IF endsWith(filePath, ".css")
           THEN IF file.parses
                THEN /\ allViolations' = CssMessages_V2(allViolations, filePath, file.usages)
                     /\ NextFile
                     /\ log' = log
                ELSE /\ log' = Append(log, "error: Failed to process CSS file")
                     /\ NextFile
                     /\ allViolations' = allViolations
           ELSE IF endsWith(filePath, ".js")
           THEN /\ allViolations' = allViolations
                      \o JsViolations_V2(filePath, Filter(KeyOrder, nonCompliantFeatureIds))
                /\ NextFile
                /\ log' = log
           ELSE NextFile /\ UNCHANGED << allViolations, log >>

\* ---- P2: src/unnamed/part_001 399-433.  As V2, with a fixed script list.
nonCompliantAPIs_P2 == << "fetch", "Promise.any", "container-type" >>

ScanFile_P2(filePath) ==
    LET file == FileSystem[filePath]
    IN  /\ filesRead' = Append(filesRead, filePath)
        /\ pending' = pending
        /\ IF ~file.readable
           THEN Abort /\ UNCHANGED << fileIndex, allViolations, log >>
           ELSE IF endsWith(filePath, ".css")
           THEN IF file.parses
                THEN /\ allViolations' = CssMessages_V2(allViolations, filePath, file.usages)
                     /\ NextFile
                     /\ log' = log
                ELSE /\ log' = Append(log, "error: Failed to process CSS file")
                     /\ NextFile
                     /\ allViolations' = allViolations
           ELSE IF endsWith(filePath, ".js")
           THEN /\ allViolations' = allViolations \o JsViolations_V2(filePath, nonCompliantAPIs_P2)
                /\ NextFile
                /\ log' = log
           ELSE NextFile /\ UNCHANGED << allViolations, log >>

\* One iteration of `for (const filePath of filePaths)`.
ScanFile ==
    /\ pc = "scan"
    /\ fileIndex < Len(filePaths)
    /\ LET filePath == filePaths[fileIndex + 1]
       IN  CASE variant = "V1" -> ScanFile_V1(filePath)
             [] variant = "V2" -> ScanFile_V2(filePath)
             [] variant = "P1" -> ScanFile_P1(filePath)
             [] variant = "P2" -> ScanFile_P2(filePath)
    /\ UNCHANGED << environment, features, inputs, classified, filePaths,
                    violationsFound, report >>

\* A queued usage reaches onFeatureUsage after the run has returned (V1, P1).
OnFeatureUsage ==
    /\ pc = "ended"
    /\ pending # <<>>
    /\ allViolations' = onFeatureUsage_V1(allViolations, Head(pending).file, Head(pending).usage)
    /\ pending' = Tail(pending)
    /\ UNCHANGED << environment, features, pc, inputs, classified, filePaths, fileIndex,
                    filesRead, log, outcome >>

\* ------------------------------------------------------------------ gate
\* generateReport(allViolations, targetBaseline) is written to the report file.
generateReport(violations, target) == [violations |-> violations, target |-> target]

\* A gate whose report generation empties the store it reads.
Gate_Pruning ==
    /\ pc = "scan"
    /\ fileIndex = Len(filePaths)
    /\ IF Len(allViolations) > 0
       THEN /\ log' = Append(log, "warning: violations found")
            /\ report' = << generateReport(allViolations, targetBaseline) >>
            /\ violationsFound' = "true"
            /\ failed' = "Build failed"
            /\ features' = EmptyObject
       ELSE /\ violationsFound' = "false"
            /\ UNCHANGED << log, report, failed, features >>
    /\ pc' = "ended"
    /\ UNCHANGED << environment, inputs, classified, scan >>

\* A gate that lets a single violation pass.
Gate_Lenient ==
    /\ pc = "scan"
    /\ fileIndex = Len(filePaths)
    /\ IF Len(allViolations) > 1
       THEN /\ log' = Append(log, "warning: violations found")
            /\ report' = << generateReport(allViolations, targetBaseline) >>
            /\ violationsFound' = "true"
            /\ failed' = "Build failed"
       ELSE /\ violationsFound' = "false"
            /\ UNCHANGED << log, report, failed >>
    /\ pc' = "ended"
    /\ UNCHANGED << environment, features, inputs, classified, scan >>

\* The CI gate after the loop (V2: src/index.js 407-423; V1: 173-189).  The
\* report file is taken to be writable.
Gate ==
    /\ pc = "scan"
    /\ fileIndex = Len(filePaths)
    /\ IF Len(allViolations) > 0
       THEN /\ log' = Append(log, "warning: violations found")
            /\ report' = << generateReport(allViolations, targetBaseline) >>
            /\ violationsFound' = "true"
            /\ failed' = "Build failed"
       ELSE /\ violationsFound' = "false"
            /\ UNCHANGED << log, report, failed >>
    /\ pc' = "ended"
    /\ UNCHANGED << environment, features, inputs, classified, scan >>

\* -------------------------------------------------------------- the program
Init ==
    /\ variant \in Variants
    /\ tzOffset \in TzOffsets
    /\ snapshot \in Snapshots
    /\ features = EmptyObject
    /\ pc = "load"
    /\ targetBaseline = <<>>
    /\ failOnNewly = FALSE
    /\ compliantFeatureIds = {}
    /\ nonCompliantFeatureIds = {}
    /\ filePaths = <<>>
    /\ fileIndex = 0
    /\ allViolations = <<>>
    /\ pending = <<>>
    /\ filesRead = <<>>
    /\ log = <<>>
    /\ failed = ""
    /\ violationsFound = ""
    /\ report = <<>>

Next == Load \/ ReadInputs \/ Classify \/ Glob \/ ScanFile \/ OnFeatureUsage \/ Gate

Spec == Init /\ [][Next]_vars

\* ------------------------------------------------- classification in isolation
InitClassify ==
    /\ variant \in Variants
    /\ tzOffset \in TzOffsets
    /\ features \in ClassifyStores
    /\ snapshot = [kind |-> "object", entries |-> features]
    /\ pc = "inputs"
    /\ targetBaseline = <<>>
    /\ failOnNewly = FALSE
    /\ compliantFeatureIds = {}
    /\ nonCompliantFeatureIds = {}
    /\ filePaths = <<>>
    /\ fileIndex = 0
    /\ allViolations = <<>>
    /\ pending = <<>>
    /\ filesRead = <<>>
    /\ log = <<>>
    /\ failed = ""
    /\ violationsFound = ""
    /\ report = <<>>

NextClassify == ReadInputs \/ Classify

SpecClassify == InitClassify /\ [][NextClassify]_vars

\* ------------------------------------------------------------------ claims
\* The name under which a copy records the feature stored at `key` in the
\* compliant set: the store key (V2, P2) or the record's id field (V1, P1).
IdentifierOf(key) == IF variant \in {"V2", "P2"} THEN key ELSE features[key].id

IsCompliantFeature(key) == IdentifierOf(key) \in compliantFeatureIds

\* The non-compliant set of a run: the one run() builds, or, in the copies
\* that build none, the store keys that fail compliantFeatureIds.has.
NonCompliantIds ==
    IF variant \in {"V2", "P2"}
    THEN nonCompliantFeatureIds
    ELSE {id \in ObjectKeys(features) : id \notin compliantFeatureIds}

\* getCompliantFeatureIds has returned in this run.
ClassificationDone == pc \in {"glob", "scan"} \/ (pc = "ended" /\ violationsFound # "")

\* C1: after classification the compliant and non-compliant sets are
\* disjoint and their union is exactly the set of keys of the feature
\* store; in particular every compliant id is a store key.
C1_Partition ==
    ClassificationDone =>
        /\ compliantFeatureIds \subseteq ObjectKeys(features)
        /\ compliantFeatureIds \cap NonCompliantIds = {}
        /\ compliantFeatureIds \cup NonCompliantIds = ObjectKeys(features)

\* C2: no Violation in the list, from the CSS messages or from the script
\* check, names a feature that is in the run's compliant set.
C2_ViolationNeverCompliant ==
    \A i \in 1..Len(allViolations) : allViolations[i].feature \notin compliantFeatureIds

\* C3: with failOnNewly set, no feature whose baseline status is "low" is
\* in the compliant set, whatever the target and whatever its dates.
C3_OverrideWins ==
    (ClassificationDone /\ failOnNewly) =>
        \A k \in ObjectKeys(features) :
            features[k].status.baseline = "low" => ~IsCompliantFeature(k)

\* The dates of a record, in the place where the running copy reads them
\* (under `status` in V2 and P2, on the record itself in V1 and P1), and the
\* calendar year written in a date string.
DatesOf(record) == IF variant \in {"V2", "P2"} THEN record.status ELSE record
LowDateOf(record) == DatesOf(record).baseline_low_date
HighDateOf(record) == DatesOf(record).baseline_high_date
WrittenYear(dateString) == dateString[1]

IsYearTarget(target) == \E y \in MinYear..MaxYear : target = YearStr(y)
YearOfTarget(target) == CHOOSE y \in MinYear..MaxYear : target = YearStr(y)

\* C4: for a year target y with the override off, a feature is compliant
\* if and only if its low date is present with a year <= y or its high date
\* is present with a year <= y.
C4_YearRule ==
    (ClassificationDone /\ ~failOnNewly /\ IsYearTarget(targetBaseline)) =>
        \A k \in ObjectKeys(features) :
            IsCompliantFeature(k) <=>
                LET y == YearOfTarget(targetBaseline)
                    low == LowDateOf(features[k])
                    high == HighDateOf(features[k])
                IN  \/ (low # <<>> /\ WrittenYear(low) <= y)
                    \/ (high # <<>> /\ WrittenYear(high) <= y)

\* C5: with the override off, under "widely" a feature is compliant if and
\* only if its baseline status is "high", and under "newly" if and only if
\* its status is "high" or "low".
C5_NamedTiers ==
    (ClassificationDone /\ ~failOnNewly) =>
        /\ targetBaseline = widely =>
              \A k \in ObjectKeys(features) :
                  IsCompliantFeature(k) <=> features[k].status.baseline = "high"
        /\ targetBaseline = newly =>
              \A k \in ObjectKeys(features) :
                  IsCompliantFeature(k) <=> features[k].status.baseline \in {"high", "low"}

\* A target string that is none of "widely", "newly" (in any letter case)
\* and a string of digits.
AllDigits(str) == str # <<>> /\ \A i \in 1..Len(str) : IsDigit(str[i])
NotATarget(target) ==
    toLowerCase(target) \notin {widely, newly} /\ ~AllDigits(target)

\* C6: once the inputs are read and classification is over, a run whose
\* target is not "widely", "newly" or an integer year has ended with the
\* error of the catch block, having read no file, produced no violation,
\* written no report and set no violations-found output.
C6_InvalidTargetAborts ==
    (pc \in {"glob", "scan", "ended"} /\ NotATarget(targetBaseline)) =>
        /\ pc = "ended"
        /\ failed = "Action failed with error"
        /\ filesRead = <<>>
        /\ allViolations = <<>>
        /\ report = <<>>
        /\ violationsFound = ""

RECURSIVE ExpectedOf(_)
ExpectedOf(usages) ==
    IF usages = <<>> THEN <<>>
    ELSE IF Head(usages).feature \in NonCompliantIds
    THEN << <<Head(usages).feature, OrUnknown(Head(usages).line)>> >> \o ExpectedOf(Tail(usages))
    ELSE ExpectedOf(Tail(usages))

RECURSIVE RecordedOf(_, _)
RecordedOf(violations, filePath) ==
    IF violations = <<>> THEN <<>>
    ELSE IF Head(violations).file = filePath
    THEN << <<Head(violations).feature, Head(violations).line>> >>
         \o RecordedOf(Tail(violations), filePath)
    ELSE RecordedOf(Tail(violations), filePath)

FullyScanned(i) ==
    /\ i <= fileIndex
    /\ \A j \in 1..Len(pending) : pending[j].file # filePaths[i]

\* C8: for every CSS file scanned, the Violations recorded for it are
\* exactly the usages the extractor reported whose feature id is in the
\* non-compliant set, one per occurrence and in order; a usage of a
\* compliant id, or of an id that is no store key, yields none.
C8_CssViolationsExact ==
    \A i \in 1..Len(filePaths) :
        LET file == FileSystem[filePaths[i]]
        IN  (FullyScanned(i) /\ file.ext = ".css" /\ file.readable /\ file.parses) =>
                RecordedOf(allViolations, filePaths[i]) = ExpectedOf(file.usages)

\* C9: a run that has started to read files ends at the gate, with every
\* file of the glob result passed: a file that cannot be read or parsed
\* does not end the run.
C9_FileFailureNeverAborts ==
    (pc = "ended" /\ filesRead # <<>>) =>
        /\ violationsFound # ""
        /\ fileIndex = Len(filePaths)

\* C10: a snapshot that is missing, unparsable or not a mapping (null, an
\* array, a number) ends the process at load, before the inputs are read.
\* (V1 falls back to the package when the local file is missing.)
C10_BadSnapshotIsFatal ==
    (\/ snapshot.kind \in {"unparsable", "null", "array", "number"}
     \/ (snapshot.kind = "missing" /\ variant # "V1")) =>
        /\ pc \in {"load", "exited"}
        /\ pc = "exited" => failed = "Failed to load web-features"

\* Position of a path in the glob result (0 if it is not in it).
IndexOfFile(filePath) ==
    IF \E i \in 1..Len(filePaths) : filePaths[i] = filePath
    THEN CHOOSE i \in 1..Len(filePaths) : filePaths[i] = filePath
    ELSE 0

\* The usages the extractor emits for a file, as (feature, line) pairs.
EmittedOf(usages) ==
    [i \in 1..Len(usages) |-> <<usages[i].feature, OrUnknown(usages[i].line)>>]

RECURSIVE IsSubsequence(_, _)
IsSubsequence(sub, seq) ==
    IF sub = <<>> THEN TRUE
    ELSE IF seq = <<>> THEN FALSE
    ELSE IF Head(sub) = Head(seq) THEN IsSubsequence(Tail(sub), Tail(seq))
    ELSE IsSubsequence(sub, Tail(seq))

\* C11: the violation list is in scan order: a Violation of a file that
\* comes earlier in the glob result stands before one of a later file, and
\* the Violations of one CSS file stand in the order in which the extractor
\* emitted the usages.
C11_ScanOrder ==
    /\ \A i, j \in 1..Len(allViolations) :
          i < j => IndexOfFile(allViolations[i].file) <= IndexOfFile(allViolations[j].file)
    /\ \A k \in 1..Len(filePaths) :
          FileSystem[filePaths[k]].ext = ".css" =>
              IsSubsequence(RecordedOf(allViolations, filePaths[k]),
                            EmittedOf(FileSystem[filePaths[k]].usages))

\* The Violations one file yields when its scan is complete, as a function
\* of the run's inputs alone (store, target, flag, file contents).
ViolationsOfFile(filePath) ==
    LET file == FileSystem[filePath]
    IN  IF file.ext = ".css"
        THEN IF variant \in {"V2", "P2"}
             THEN CssMessages_V2(<<>>, filePath, file.usages)
             ELSE Deliver_V1(<<>>, filePath, file.usages)
        ELSE IF file.ext = ".js"
        THEN CASE variant = "V1" -> <<>>
               [] variant = "P1" -> JsViolations_P1(filePath, nonCompliantAPIs_P1)
               [] variant = "V2" -> JsViolations_V2(filePath, Filter(KeyOrder, nonCompliantFeatureIds))
               [] variant = "P2" -> JsViolations_V2(filePath, nonCompliantAPIs_P2)
        ELSE <<>>

RECURSIVE ViolationsOfFiles(_)
ViolationsOfFiles(n) ==
    IF n = 0 THEN <<>> ELSE ViolationsOfFiles(n - 1) \o ViolationsOfFile(filePaths[n])

\* C12: the violation list on which the run decides, and with it the
\* pass/fail outcome, is determined by the store, the target and flag, the
\* ordered file list and the file contents: whenever the decision has been
\* taken the list it was taken on is the one these inputs give, however the
\* extractor's callbacks were scheduled.
C12_Deterministic ==
    violationsFound # "" =>
        /\ (violationsFound = "true") <=> (ViolationsOfFiles(Len(filePaths)) # <<>>)
        /\ pending = <<>> => allViolations = ViolationsOfFiles(Len(filePaths))

\* The usages of store features among those a file emits.
RECURSIVE StoreUsagesOf(_)
StoreUsagesOf(usages) ==
    IF usages = <<>> THEN <<>>
    ELSE IF Head(usages).feature \in ObjectKeys(features)
    THEN << <<Head(usages).feature, OrUnknown(Head(usages).line)>> >> \o StoreUsagesOf(Tail(usages))
    ELSE StoreUsagesOf(Tail(usages))

EmptySetScanned ==
    (ClassificationDone /\ compliantFeatureIds = {}) =>
        \A i \in 1..Len(filePaths) :
            LET file == FileSystem[filePaths[i]]
            IN  (FullyScanned(i) /\ file.ext = ".css" /\ file.readable /\ file.parses) =>
                    IsSubsequence(StoreUsagesOf(file.usages), RecordedOf(allViolations, filePaths[i]))

\* The step in which classification returns an empty compliant set logs the
\* warning, does not fail the run and leads to the scan; the state reached
\* by any step has every store usage of a finished CSS file in the list.
C13_Step ==
    /\ (pc = "classify" /\ pc' # pc
          /\ getCompliantFeatureIds(targetBaseline, failOnNewly).threw = ""
          /\ getCompliantFeatureIds(targetBaseline, failOnNewly).ids = {}) =>
             /\ log' = Append(log, "warning: no compliant features")
             /\ failed' = ""
             /\ pc' = "glob"
    /\ EmptySetScanned'

\* C13: when classification returns an empty compliant set it has emitted
\* a warning, the run is not failed by it and goes on to the scan, where
\* every usage of a store feature becomes a Violation.
C13_EmptySetWarns == [][C13_Step]_vars

\* A location field as the claim allows it: a positive integer the
\* extractor reported, or the literal 'unknown'.
LocationOk(field) == field = unknown \/ (field.known /\ field.n > 0)

\* C14: every Violation in the list carries a line and a column, each a
\* positive integer reported by the extractor or the literal 'unknown'.
C14_LineAndColumn ==
    \A i \in 1..Len(allViolations) :
        /\ {"line", "column"} \subseteq DOMAIN allViolations[i]
        /\ LocationOk(allViolations[i].line)
        /\ LocationOk(allViolations[i].column)

\* The loop is at a path that is neither a style sheet nor a script.
AtOtherFile ==
    /\ pc = "scan"
    /\ fileIndex < Len(filePaths)
    /\ FileSystem[filePaths[fileIndex + 1]].ext \notin {".css", ".js"}

C15_Step ==
    (AtOtherFile /\ (fileIndex' # fileIndex \/ pc' # pc)) =>
        /\ fileIndex' = fileIndex + 1
        /\ pc' = "scan"
        /\ allViolations' = allViolations
        /\ pending' = pending
        /\ log' = log
        /\ outcome' = outcome

\* C15: the loop passes over a path that is neither .css nor .js, readable
\* or not, without a Violation, without an error and without touching the
\* run's outcome.
C15_OtherFilesSkipped == [][C15_Step]_vars

toUpperChar(c) ==
    IF \E i \in 1..26 : LowerCase[i] = c
    THEN UpperCase[CHOOSE i \in 1..26 : LowerCase[i] = c]
    ELSE c
toUpperCase(str) == [i \in 1..Len(str) |-> toUpperChar(str[i])]

\* C16: the target is case-insensitive: for the target and flag of the run,
\* getCompliantFeatureIds gives the same accept/reject decision and the
\* same compliant set for the target as typed, in upper case and in lower
\* case, and the set the run works with is that set.
C16_CaseInsensitive ==
    LET asTyped == getCompliantFeatureIds(targetBaseline, failOnNewly)
        upper == getCompliantFeatureIds(toUpperCase(targetBaseline), failOnNewly)
        lower == getCompliantFeatureIds(toLowerCase(targetBaseline), failOnNewly)
    IN  /\ pc = "classify" => (upper = asTyped /\ lower = asTyped)
        /\ ClassificationDone =>
              /\ upper.threw = "" /\ upper.ids = compliantFeatureIds
              /\ lower.threw = "" /\ lower.ids = compliantFeatureIds

\* A run classified a mixed-case target and found compliant features.
C16_Witness ==
    /\ pc = "glob"
    /\ targetBaseline = <<"W","i","d","e","l","y">>
    /\ compliantFeatureIds # {}

\* C17: for the store and target of the run, the compliant set computed
\* with failOnNewly on is a subset of the one computed with it off, and
\* every feature only in the latter has baseline status 'low'; a run with
\* the flag on works with the smaller set.
C17_OverrideOnlyRemoves ==
    pc \in {"classify", "glob"} =>
        LET on == getCompliantFeatureIds(targetBaseline, TRUE)
            off == getCompliantFeatureIds(targetBaseline, FALSE)
        IN  (on.threw = "" /\ off.threw = "") =>
               /\ on.ids \subseteq off.ids
               /\ \A k \in ObjectKeys(features) :
                     (IdentifierOf(k) \in off.ids \ on.ids) => features[k].status.baseline = "low"
               /\ (pc = "glob" /\ failOnNewly) => compliantFeatureIds = on.ids

\* A run with the flag on lost a feature that the same target keeps with
\* the flag off.
C17_Witness ==
    /\ pc = "glob"
    /\ failOnNewly
    /\ getCompliantFeatureIds(targetBaseline, FALSE).threw = ""
    /\ getCompliantFeatureIds(targetBaseline, FALSE).ids \ compliantFeatureIds # {}

C18_Step ==
    /\ (violationsFound = "" /\ violationsFound' # "") =>
          /\ fileIndex = Len(filePaths)
          /\ pending = <<>>
    /\ violationsFound # "" => allViolations' = allViolations

\* C18: the decision is taken only when the scan of every selected file is
\* complete, with no usage of a scanned file still to be reported, and no
\* Violation is appended to the list after the decision.
C18_DecisionAfterScan == [][C18_Step]_vars

\* The tokens a copy searches scripts for.
TokenSet ==
    CASE variant = "V1" -> {}
      [] variant = "P1" -> {nonCompliantAPIs_P1[i] : i \in 1..Len(nonCompliantAPIs_P1)}
      [] variant = "V2" -> nonCompliantFeatureIds
      [] variant = "P2" -> {nonCompliantAPIs_P2[i] : i \in 1..Len(nonCompliantAPIs_P2)}

\* Positions in the list of the Violations of a file.
ViolationsAt(filePath) == {n \in 1..Len(allViolations) : allViolations[n].file = filePath}

\* C19: for every script the loop has finished and every token of the
\* copy's token set, the list holds one Violation for (file, token) if the
\* file's text contains the token, however often, and none otherwise; a
\* script's Violations name tokens only and have line and column 'unknown'.
C19_ScriptTokens ==
    \A i \in 1..fileIndex :
        LET filePath == filePaths[i]
            file == FileSystem[filePath]
        IN  (file.ext = ".js" /\ file.readable) =>
               /\ \A token \in TokenSet :
                     Cardinality({n \in ViolationsAt(filePath) : allViolations[n].feature = token})
                        = IF includes(filePath, token) THEN 1 ELSE 0
               /\ \A n \in ViolationsAt(filePath) :
                     /\ allViolations[n].feature \in TokenSet
                     /\ allViolations[n].line = unknown
                     /\ "column" \in DOMAIN allViolations[n]
                     /\ allViolations[n].column = unknown

C20_Step ==
    /\ pc # "load" => features' = features
    /\ ClassificationDone =>
          /\ compliantFeatureIds' = compliantFeatureIds
          /\ nonCompliantFeatureIds' = nonCompliantFeatureIds

\* C20: once loaded, the feature store is not changed by any later step,
\* and once classification has returned, the compliant and non-compliant
\* sets are not changed by scanning, aggregation or report generation.
C20_StoreAndSetsFrozen == [][C20_Step]_vars

\* A run that classified, scanned, and wrote a report from a loaded store.
C20_Witness ==
    /\ pc = "ended"
    /\ report # <<>>
    /\ filesRead # <<>>
    /\ features # EmptyObject
    /\ compliantFeatureIds # {}

C21_Step ==
    (pc = "classify" /\ pc' # pc /\ ~NotATarget(targetBaseline)) =>
        /\ pc' = "glob"
        /\ failed' = ""

\* C21: for a valid target (widely, newly or an integer year) the
\* classification step never raises, whether the compliant set is empty
\* or not: the run is not failed by it and goes on to the scan.
C21_ValidTargetNeverRaises == [][C21_Step]_vars

\* C22: under a year target, with the override off, a feature that has a
\* low date and no high date is compliant if and only if the year written
\* in the low date is at most the target year, on every host: a low date
\* of 1 January of the year after the target is non-compliant.
C22_WrittenYearCompared ==
    (ClassificationDone /\ ~failOnNewly /\ IsYearTarget(targetBaseline)) =>
        \A k \in ObjectKeys(features) :
            (LowDateOf(features[k]) # <<>> /\ HighDateOf(features[k]) = <<>>) =>
                (IsCompliantFeature(k) <=>
                    WrittenYear(LowDateOf(features[k])) <= YearOfTarget(targetBaseline))

\* The compliant set a target gives for the store and flag of the run, and
\* whether the call returns.
ReturnsFor(target) == getCompliantFeatureIds(target, failOnNewly).threw = ""
SetFor(target) == getCompliantFeatureIds(target, failOnNewly).ids

\* C23: for the store and flag of the run, the compliant set for 'widely'
\* is a subset of the one for 'newly', and for year targets y1 <= y2 the
\* set for y1 is a subset of the set for y2: the set a run has computed
\* for 'widely' is within the set 'newly' gives, and the set it has computed
\* for a year is within the set every later year gives.
C23_MonotoneInTarget ==
    /\ (pc = "glob" /\ IsYearTarget(targetBaseline)) =>
          \A y2 \in YearOfTarget(targetBaseline)..MaxYear :
              ReturnsFor(YearStr(y2)) => compliantFeatureIds \subseteq SetFor(YearStr(y2))
    /\ (pc = "glob" /\ targetBaseline = widely /\ ReturnsFor(newly)) =>
          compliantFeatureIds \subseteq SetFor(newly)

\* A run classified a year target and a later year gives a strictly
\* larger set.
C23_Witness ==
    /\ pc = "glob"
    /\ targetBaseline = YearStr(MinYear + 1)
    /\ compliantFeatureIds # {}
    /\ ReturnsFor(YearStr(MaxYear))
    /\ SetFor(YearStr(MaxYear)) \ compliantFeatureIds # {}

====
